---- MODULE Spec2Model ----
(***************************************************************************)
(* Model of src/server.js: the ClamAV connection pool                      *)
(* (ClamAVConnectionPool), the start-up / lazy warm-up (initClamScan),     *)
(* one streaming scan attempt (scanWithStream) and its retry wrapper       *)
(* (scanFile), as driven by concurrent POST /upload requests.              *)
(*                                                                         *)
(* Node runs every callback to completion, so one action is one callback   *)
(* together with the promise continuations it triggers that touch the      *)
(* pool: the asynchronous boundaries are the connection creation           *)
(* (NodeClam init), the daemon scan (conn.scanStream), the retry timer     *)
(* (setTimeout) and the wait in the pool's queue.                          *)
(***************************************************************************)
EXTENDS Integers, Sequences, FiniteSets, TLC

\* ---------------------------------------------------------------- bounds
\* Number of concurrent upload requests.
NumReqs == 3
\* Number of connections the daemon accepts over one run (ids 1..MaxConnIds).
MaxConnIds == 2
\* The capacities the pool is constructed with:
\* new ClamAVConnectionPool(PoolCap, QueueCap).
PoolCap == 1
QueueCap == 1
\* Number of failures (failed connection creations, scan errors) the daemon
\* link suffers over one run.
MaxFaults == 2

\* ------------------------------------------------------ program constants
\* scanFile: const maxRetries = 2
maxRetries == 2
\* _createConnection: const maxRetries = 10; const delay = 3000
createMaxRetries == 10
delay == 3000

ConnIds == 1..MaxConnIds
NoReq == 0
NoConn == 0

\* err.code values that scanWithStream / scanFile treat as connection errors.
TransportCodes == {"EPIPE", "ECONNRESET"}
\* What conn.scanStream can call back with: a daemon response or an error code.
\* NO_CODE: an Error without a code property (the daemon answered ERROR).
ScanErrCodes == {"EPIPE", "ECONNRESET", "ETIMEDOUT", "NO_CODE"}
ScanOutcomes == {"OK", "UNKNOWN_COMMAND"} \cup ScanErrCodes
\* Error codes with which the last establishment attempt can fail.
CreateErrCodes == {"ECONNREFUSED", "ECONNRESET"}

VARIABLES
    maxConnections, \* this.maxConnections
    maxQueueSize,   \* this.maxQueueSize
    pool,           \* this.pool: sequence of connection ids
    inUse,          \* this.inUse: set of connection ids
    queue,          \* this.queue: sequence of suspended acquire() callers
    initialized,    \* this.initialized
    bootPc,         \* the start-up initClamScan(): "warming" | "up"
    pc,             \* per request: position in POST /upload -> scanFile
    conn,           \* per request: scanWithStream's local conn (NoConn = null)
    retryCount,     \* per request: scanFile's retryCount
    err,            \* per request: the error scanFile threw ("none" if none)
    nextConn,       \* id of the next connection the daemon will accept
    connLimit,      \* number of connections the daemon accepts over the run
    faultsLeft,     \* number of failures the daemon link can still suffer
    faulted,        \* history: connections on which EPIPE/ECONNRESET occurred
    resumed,        \* history: requests whose pending acquire() release() resolved
    lastFailed,     \* history, per observed request: the connection of its
                    \* latest failed attempt if that was a scan ending with
                    \* EPIPE/ECONNRESET, else NoConn
    resp,           \* history: the response object as scanStream passed it
                    \* to the callback (the callback may push into its arrays:
                    \* result.rawResult is the object after the call)
    result,         \* what scanWithStream resolves with for resp
    scanErrs,       \* the error codes the daemon link produces during scans
    attempt,        \* _createConnection: the loop variable (0 before the call)
    cpc,            \* _createConnection: "idle" | "init" | "sleep" |
                    \*                    "returned" | "thrown"
    tries,          \* history: outcome of every establishment attempt so far
    waits,          \* history: the waitTime of every setTimeout so far
    cerr,           \* the error _createConnection threw ("none" if none)
    enableScan,     \* ENABLE_VIRUS_SCAN
    upFile,         \* POST /upload followed through its checks: req.file
    hpc,            \* its position: "idle" (not called) | "lazyinit"
                    \* (awaits initClamScan) | "scanFile" (awaits scanFile)
                    \* | "returned"
    http            \* the first response sent on res (status 0: none yet)

\* The upload requests of a run: the requests that pc keeps a position for.
Reqs == DOMAIN pc

config == <<maxConnections, maxQueueSize>>
\* What the daemon does over a run: its connection limit and the error codes
\* of its link.
daemon == <<connLimit, scanErrs>>
\* One _createConnection() call followed attempt by attempt.
crt == <<attempt, cpc, tries, waits, cerr>>
\* What the pool's and the requests' steps leave alone: the daemon's limits,
\* the response under interpretation and its result, the call of
\* _createConnection() that is followed attempt by attempt.
\* the upload that is followed through the handler's checks.
upload == <<enableScan, upFile, hpc, http>>
interp == <<daemon, resp, result, crt, upload>>
vars == <<maxConnections, maxQueueSize, pool, inUse, queue, initialized,
          bootPc, pc, conn, retryCount, err, nextConn, connLimit, faultsLeft,
          faulted, resumed, lastFailed, resp, result, scanErrs, attempt, cpc,
          tries, waits, cerr, enableScan, upFile, hpc, http>>

\* ------------------------------------------------------------ pool helpers
Range(s) == {s[i] : i \in 1..Len(s)}

\* this.pool.find(c => !this.inUse.has(c)): first idle connection, or NoConn.
FindIdle(p, u) ==
    LET idx == {i \in 1..Len(p) : p[i] \notin u}
    IN  IF idx = {} THEN NoConn
        ELSE p[CHOOSE i \in idx : \A j \in idx : i <= j]

\* this.pool.indexOf(conn), 1-based; 0 when absent.
IndexOf(p, c) ==
    LET idx == {i \in 1..Len(p) : p[i] = c}
    IN  IF idx = {} THEN 0 ELSE CHOOSE i \in idx : \A j \in idx : i <= j

\* this.pool.splice(index, 1)
Splice(p, i) == [k \in 1..(Len(p) - 1) |-> IF k < i THEN p[k] ELSE p[k + 1]]

\* isReady() with && in place of ||.
isReady_and(ini, p) == ini /\ Len(p) > 0

\* isReady()
isReady(ini, p) == ini \/ Len(p) > 0

\* ------------------------------------------------ ClamAVConnectionPool
\* Faulty variants of the pool's methods, used to show that the properties
\* below depend on what the methods do.
\* acquire() whose idle branch forgets this.inUse.add(conn).
acquire_noMark(p, u, q, mc, mq, r) ==
    LET c == FindIdle(p, u)
    IN  IF c # NoConn
          THEN [kind |-> "got", conn |-> c, inUse |-> u, queue |-> q]
        ELSE IF Len(p) < mc
          THEN [kind |-> "create", conn |-> NoConn, inUse |-> u, queue |-> q]
        ELSE IF Len(q) >= mq
          THEN [kind |-> "rejected", conn |-> NoConn, inUse |-> u, queue |-> q]
        ELSE [kind |-> "queued", conn |-> NoConn, inUse |-> u,
              queue |-> Append(q, r)]

\* acquire() whose queue-full test is > instead of >=.
acquire_offByOne(p, u, q, mc, mq, r) ==
    LET c == FindIdle(p, u)
    IN  IF c # NoConn
          THEN [kind |-> "got", conn |-> c, inUse |-> u \cup {c}, queue |-> q]
        ELSE IF Len(p) < mc
          THEN [kind |-> "create", conn |-> NoConn, inUse |-> u, queue |-> q]
        ELSE IF Len(q) > mq
          THEN [kind |-> "rejected", conn |-> NoConn, inUse |-> u, queue |-> q]
        ELSE [kind |-> "queued", conn |-> NoConn, inUse |-> u,
              queue |-> Append(q, r)]

\* release() that hands the connection to the waiter without re-adding it to
\* this.inUse.
release_noMark(u, q, c) ==
    LET u1 == u \ {c}
    IN  IF Len(q) > 0
          THEN [inUse |-> u1, queue |-> Tail(q), resolved |-> Head(q)]
          ELSE [inUse |-> u1, queue |-> q, resolved |-> NoReq]

\* release() that takes the waiter from the back of the queue (pop).
release_lifo(u, q, c) ==
    LET u1 == u \ {c}
    IN  IF Len(q) > 0
          THEN [inUse |-> u1 \cup {c}, queue |-> SubSeq(q, 1, Len(q) - 1),
                resolved |-> q[Len(q)]]
          ELSE [inUse |-> u1, queue |-> q, resolved |-> NoReq]

\* acquire() that prefers a new connection to an idle one while the
\* collection is under its limit.
acquire_createFirst(p, u, q, mc, mq, r) ==
    LET c == FindIdle(p, u)
    IN  IF Len(p) < mc
          THEN [kind |-> "create", conn |-> NoConn, inUse |-> u, queue |-> q]
        ELSE IF c # NoConn
          THEN [kind |-> "got", conn |-> c, inUse |-> u \cup {c}, queue |-> q]
        ELSE IF Len(q) >= mq
          THEN [kind |-> "rejected", conn |-> NoConn, inUse |-> u, queue |-> q]
        ELSE [kind |-> "queued", conn |-> NoConn, inUse |-> u,
              queue |-> Append(q, r)]
\* acquire() that also takes a queue slot when it starts a creation.
acquire_createQueues(p, u, q, mc, mq, r) ==
    LET c == FindIdle(p, u)
    IN  IF c # NoConn
          THEN [kind |-> "got", conn |-> c, inUse |-> u \cup {c}, queue |-> q]
        ELSE IF Len(p) < mc
          THEN [kind |-> "create", conn |-> NoConn, inUse |-> u,
                queue |-> Append(q, r)]
        ELSE IF Len(q) >= mq
          THEN [kind |-> "rejected", conn |-> NoConn, inUse |-> u, queue |-> q]
        ELSE [kind |-> "queued", conn |-> NoConn, inUse |-> u,
              queue |-> Append(q, r)]

\* acquire(), the synchronous body of its promise executor, called by request r
\* on pool p, in-use set u, queue q with capacities mc and mq.  kind is what
\* became of the call: "got" (resolved with an idle connection), "create"
\* (_createConnection() started), "queued" (suspended) or "rejected".
acquire(p, u, q, mc, mq, r) ==
    LET c == FindIdle(p, u)
    IN  IF c # NoConn
          THEN [kind |-> "got", conn |-> c, inUse |-> u \cup {c}, queue |-> q]
        ELSE IF Len(p) < mc
          THEN [kind |-> "create", conn |-> NoConn, inUse |-> u, queue |-> q]
        ELSE IF Len(q) >= mq
          THEN [kind |-> "rejected", conn |-> NoConn, inUse |-> u, queue |-> q]
        ELSE [kind |-> "queued", conn |-> NoConn, inUse |-> u,
              queue |-> Append(q, r)]

\* release() that only clears the marker and leaves the queue alone.
release_noResolve(u, q, c) ==
    [inUse |-> u \ {c}, queue |-> q, resolved |-> NoReq]
\* release() that resolves the first waiter without taking it off the queue.
release_noShift(u, q, c) ==
    LET u1 == u \ {c}
    IN  IF Len(q) > 0
          THEN [inUse |-> u1 \cup {c}, queue |-> q, resolved |-> Head(q)]
          ELSE [inUse |-> u1, queue |-> q, resolved |-> NoReq]

\* release(conn): resolved is the waiter whose acquire() it resolves with conn
\* (NoReq when the queue is empty).
release(u, q, c) ==
    LET u1 == u \ {c}
    IN  IF Len(q) > 0
          THEN [inUse |-> u1 \cup {c}, queue |-> Tail(q), resolved |-> Head(q)]
          ELSE [inUse |-> u1, queue |-> q, resolved |-> NoReq]

\* removeConnection(conn) without the splice: the marker is cleared, the
\* connection stays in the collection.
removeConnection_noSplice(p, u, c) ==
    [inUse |-> u \ {c}, pool |-> p]

\* removeConnection(conn)
removeConnection(p, u, c) ==
    LET index == IndexOf(p, c)
    IN  [inUse |-> u \ {c},
         pool  |-> IF index > 0 THEN Splice(p, index) ELSE p]

\* The history lastFailed with c noted for request r, if r is observed.
Observe(r, c) ==
    [x \in DOMAIN lastFailed |-> IF x = r THEN c ELSE lastFailed[x]]
\* What the history holds for r (NoConn for a request that is not observed).
NoteOf(r) == IF r \in DOMAIN lastFailed THEN lastFailed[r] ELSE NoConn

\* ------------------------------------------------------------------ Init
\* No response is under interpretation.
NoResp == [resultString |-> [t |-> "undefined"]]
NoResult == [method |-> "none"]

\* The server after start-up, with a pool constructed with capacities mc and
\* mq: the start-up initClamScan() is connecting, n uploads are still to
\* arrive, the daemon accepts ids connections and its link can suffer budget
\* failures over the run, with the error codes of codes during scans, and the
\* history lastFailed observes the requests of obs.
InitPool(n, mc, mq, ids, budget, obs, codes) ==
    /\ maxConnections = mc
    /\ maxQueueSize = mq
    /\ pool = <<>>
    /\ inUse = {}
    /\ queue = <<>>
    /\ initialized = FALSE
    /\ bootPc = "warming"
    /\ pc = [r \in 1..n |-> "new"]
    /\ conn = [r \in 1..n |-> NoConn]
    /\ retryCount = [r \in 1..n |-> 0]
    /\ err = [r \in 1..n |-> "none"]
    /\ nextConn = 1
    /\ connLimit = ids
    /\ faultsLeft = budget
    /\ faulted = {}
    /\ resumed = {}
    /\ lastFailed = [r \in obs |-> NoConn]
    /\ resp = NoResp
    /\ result = NoResult
    /\ scanErrs = codes
    /\ attempt = 0
    /\ cpc = "idle"
    /\ tries = <<>>
    /\ waits = <<>>
    /\ cerr = "none"

\* No file (req.file undefined) and no response sent.
NoSize == [hi |-> -1, lo |-> -1]
NoFile == [size |-> NoSize, length |-> NoSize]
NoHttp == [status |-> 0, stage |-> "none"]

\* The same with virus scanning enabled (the default of ENABLE_VIRUS_SCAN)
\* and no upload under way in the handler's checks.
InitFull(n, mc, mq, ids, budget, obs, codes) ==
    /\ InitPool(n, mc, mq, ids, budget, obs, codes)
    /\ enableScan = TRUE
    /\ upFile = NoFile
    /\ hpc = "idle"
    /\ http = NoHttp

\* The same with a link whose scans fail with EPIPE, ECONNRESET or ETIMEDOUT.
InitWith(n, mc, mq, ids, budget, obs) ==
    InitFull(n, mc, mq, ids, budget, obs, {"EPIPE", "ECONNRESET", "ETIMEDOUT"})

Init == InitWith(NumReqs, PoolCap, QueueCap, MaxConnIds, MaxFaults, {})

\* The failures the daemon link can still suffer: a count, or no limit.
Unlimited == -1
CanFail(f) == f # 0
\* The count after one more failure.
Spend(f) == IF f = Unlimited THEN f ELSE f - 1

\* --------------------------------------------------------------- actions
\* scanFile(buffer, size, id, rc) -> scanWithStream -> connectionPool.acquire(),
\* all in the caller's turn, on pool p and in-use set u.
ScanFileCall(r, p, u, rc) ==
    LET a == acquire(p, u, queue, maxConnections, maxQueueSize, r)
    IN  /\ pool' = p
        /\ inUse' = a.inUse
        /\ queue' = a.queue
        /\ retryCount' = [retryCount EXCEPT ![r] = rc]
        /\ conn' = [conn EXCEPT ![r] = a.conn]
        /\ pc' = [pc EXCEPT ![r] =
                    CASE a.kind = "got"      -> "scanning"
                      [] a.kind = "create"   -> "creating"
                      [] a.kind = "queued"   -> "waiting"
                      [] a.kind = "rejected" -> "failed"]
        /\ err' = [err EXCEPT ![r] =
                    IF a.kind = "rejected" THEN "PoolExhausted" ELSE "none"]

\* The Error object that conn.scanStream (or the connection establishment)
\* fails with, as far as scanFile looks at it: its code. NoError: nothing thrown.
ErrorObject(code) == [code |-> code]
NoError == [code |-> "none"]

\* The catch block with the budget test off by one (<=).
ScanFileCatch_offByOne(r, code) ==
    IF code \in TransportCodes /\ retryCount[r] <= maxRetries
      THEN [pc |-> "backoff", err |-> "none", thrown |-> NoError]
      ELSE [pc |-> "failed", err |-> code, thrown |-> ErrorObject(code)]

\* scanFile's catch block for request r and error code: retry after a delay
\* on EPIPE/ECONNRESET while retryCount < maxRetries, else `throw error`: the
\* object caught is the object thrown (err keeps its code).
ScanFileCatch(r, code) ==
    LET error == ErrorObject(code)
    IN  IF error.code \in TransportCodes /\ retryCount[r] < maxRetries
          THEN [pc |-> "backoff", err |-> "none", thrown |-> NoError]
          ELSE [pc |-> "failed", err |-> error.code, thrown |-> error]

\* scanFile treating the UNKNOWN COMMAND result as one more connection error.
ScanFileAfterScan_retryUnknown(r, out) ==
    CASE out = "OK" -> [pc |-> "done", err |-> "none"]
      [] out = "UNKNOWN_COMMAND" -> ScanFileCatch(r, "ECONNRESET")
      [] OTHER -> ScanFileCatch(r, out)

\* scanFile after its await of scanWithStream settles with outcome out: a
\* result is returned, an UNKNOWN COMMAND result is turned into a thrown Error
\* (no code), a rejection goes to the catch block.
ScanFileAfterScan(r, out) ==
    CASE out = "OK" -> [pc |-> "done", err |-> "none"]
      [] out = "UNKNOWN_COMMAND" ->
           [pc |-> "failed", err |-> "ProtocolUnsupported"]
      [] OTHER -> ScanFileCatch(r, out)

\* The start-up initClamScan() settles: a created connection is pushed idle,
\* a failure is logged.
\* The warm-up hands its connection out as in use instead of idle, and a
\* failed warm-up marks the pool initialized.
BootDone_notIdle(ok) ==
    /\ bootPc = "warming"
    /\ bootPc' = "up"
    /\ IF ok
         THEN /\ nextConn <= connLimit
              /\ pool' = Append(pool, nextConn)
              /\ inUse' = inUse \cup {nextConn}
              /\ nextConn' = nextConn + 1
              /\ initialized' = TRUE
              /\ faultsLeft' = faultsLeft
         ELSE /\ CanFail(faultsLeft)
              /\ faultsLeft' = Spend(faultsLeft)
              /\ initialized' = TRUE
              /\ UNCHANGED <<pool, nextConn, inUse>>
    /\ UNCHANGED <<config, interp, queue, pc, conn, retryCount, err, faulted, resumed, lastFailed>>
BootDone(ok) ==
    /\ bootPc = "warming"
    /\ bootPc' = "up"
    /\ IF ok
         THEN /\ nextConn <= connLimit
              /\ pool' = Append(pool, nextConn)
              /\ nextConn' = nextConn + 1
              /\ initialized' = TRUE
              /\ faultsLeft' = faultsLeft
         ELSE /\ CanFail(faultsLeft)
              /\ faultsLeft' = Spend(faultsLeft)
              /\ UNCHANGED <<pool, nextConn, initialized>>
    /\ UNCHANGED <<config, interp, inUse, queue, pc, conn, retryCount, err, faulted, resumed, lastFailed>>

\* Request r arrives: requests are numbered in the order of their arrival.
Arrives(r) == pc[r] = "new" /\ \A x \in Reqs : x < r => pc[x] # "new"

\* POST /upload with a file, pool ready: straight into scanFile.
StartReady(r) ==
    /\ Arrives(r)
    /\ isReady(initialized, pool)
    /\ ScanFileCall(r, pool, inUse, 0)
    /\ UNCHANGED <<config, interp, initialized, bootPc, nextConn, faultsLeft, faulted, resumed, lastFailed>>

\* POST /upload with a file, pool not ready: await initClamScan().
StartLazy(r) ==
    /\ Arrives(r)
    /\ ~isReady(initialized, pool)
    /\ pc' = [pc EXCEPT ![r] = "lazyinit"]
    /\ UNCHANGED <<config, interp, pool, inUse, queue, initialized, bootPc, conn,
                   retryCount, err, nextConn, faultsLeft, faulted, resumed, lastFailed>>

\* The lazy initClamScan() of request r settles; the handler goes on to scanFile.
LazyInitDone(r, ok) ==
    /\ pc[r] = "lazyinit"
    /\ IF ok
         THEN /\ nextConn <= connLimit
              /\ nextConn' = nextConn + 1
              /\ initialized' = TRUE
              /\ faultsLeft' = faultsLeft
              /\ ScanFileCall(r, Append(pool, nextConn), inUse, 0)
         ELSE /\ CanFail(faultsLeft)
              /\ faultsLeft' = Spend(faultsLeft)
              /\ UNCHANGED <<nextConn, initialized>>
              /\ ScanFileCall(r, pool, inUse, 0)
    /\ UNCHANGED <<config, interp, bootPc, faulted, resumed, lastFailed>>

\* The _createConnection() started by r's acquire() succeeds.
CreateOk(r) ==
    /\ pc[r] = "creating"
    /\ nextConn <= connLimit
    /\ initialized' = TRUE
    /\ pool' = Append(pool, nextConn)
    /\ inUse' = inUse \cup {nextConn}
    /\ conn' = [conn EXCEPT ![r] = nextConn]
    /\ pc' = [pc EXCEPT ![r] = "scanning"]
    /\ nextConn' = nextConn + 1
    /\ UNCHANGED <<config, interp, queue, bootPc, retryCount, err, faultsLeft, faulted, resumed, lastFailed>>

\* The _createConnection() started by r's acquire() fails after its last
\* try: acquire() rejects and scanFile's catch block runs.
CreateThrows(r, code) ==
    /\ pc[r] = "creating"
    /\ CanFail(faultsLeft)
    /\ faultsLeft' = Spend(faultsLeft)
    /\ pc' = [pc EXCEPT ![r] = ScanFileCatch(r, code).pc]
    /\ err' = [err EXCEPT ![r] = ScanFileCatch(r, code).err]
    /\ lastFailed' = Observe(r, NoConn)
    /\ UNCHANGED <<config, daemon, resp, result, crt, pool, inUse, queue,
                   initialized, bootPc, conn, retryCount, nextConn, faulted,
                   resumed>>

\* The same, for a request whose response is not followed.
CreateFail(r, code) ==
    /\ CreateThrows(r, code)
    /\ UNCHANGED upload

\* The scanStream callback of request r's attempt, with outcome out: release,
\* removeConnection on EPIPE/ECONNRESET, then resolve or reject, on which
\* scanFile returns, throws or starts its retry timer, all in the same turn.
ScanCallback(r, out) ==
    /\ pc[r] = "scanning"
    /\ out \in ScanErrCodes => (out \in scanErrs /\ CanFail(faultsLeft))
    /\ faultsLeft' = IF out \in ScanErrCodes THEN Spend(faultsLeft) ELSE faultsLeft
    /\ LET c   == conn[r]
           rel == release(inUse, queue, c)
           rem == IF out \in TransportCodes
                    THEN removeConnection(pool, rel.inUse, c)
                    ELSE [inUse |-> rel.inUse, pool |-> pool]
           w   == rel.resolved
           me  == ScanFileAfterScan(r, out)
       IN  /\ pool' = rem.pool
           /\ inUse' = rem.inUse
           /\ queue' = rel.queue
           /\ pc' = [x \in Reqs |-> IF x = r THEN me.pc
                                    ELSE IF x = w THEN "scanning" ELSE pc[x]]
           /\ conn' = [x \in Reqs |-> IF x = r THEN NoConn
                                      ELSE IF x = w THEN c ELSE conn[x]]
           /\ err' = [err EXCEPT ![r] = me.err]
           /\ faulted' = IF out \in TransportCodes
                           THEN faulted \cup {c} ELSE faulted
           /\ resumed' = (resumed \ {r}) \cup (IF w = NoReq THEN {} ELSE {w})
           /\ lastFailed' = Observe(r, IF out \in TransportCodes THEN c
                                        ELSE IF out = "OK" THEN NoteOf(r)
                                        ELSE NoConn)
    /\ UNCHANGED <<config, daemon, crt, initialized, bootPc, retryCount, nextConn>>

\* The callback of request r, seen without the content of the response.
ScanDone(r, out) ==
    /\ ScanCallback(r, out)
    /\ UNCHANGED <<resp, result, upload>>

\* The retry that calls scanFile with the same retryCount.
RetryFire_sameCount(r) ==
    /\ pc[r] = "backoff"
    /\ ScanFileCall(r, pool, inUse, retryCount[r])
    /\ UNCHANGED <<config, interp, initialized, bootPc, nextConn, faultsLeft, faulted, resumed, lastFailed>>
\* The retry timer of request r fires: scanFile(..., retryCount + 1).
RetryFire(r) ==
    /\ pc[r] = "backoff"
    /\ ScanFileCall(r, pool, inUse, retryCount[r] + 1)
    /\ UNCHANGED <<config, interp, initialized, bootPc, nextConn, faultsLeft, faulted, resumed, lastFailed>>

\* What the steps of one upload's scan leave alone, its handler apart.
besideScan ==
    <<config, daemon, resp, result, crt, initialized, bootPc, nextConn,
      faultsLeft, faulted, resumed, lastFailed>>

Next ==
    \/ \E ok \in BOOLEAN : BootDone(ok)
    \/ \E r \in Reqs : StartReady(r)
    \/ \E r \in Reqs : StartLazy(r)
    \/ \E r \in Reqs, ok \in BOOLEAN : LazyInitDone(r, ok)
    \/ \E r \in Reqs : CreateOk(r)
    \/ \E r \in Reqs, code \in CreateErrCodes : CreateFail(r, code)
    \/ \E r \in Reqs, out \in ScanOutcomes : ScanDone(r, out)
    \/ \E r \in Reqs : RetryFire(r)

Spec == Init /\ [][Next]_vars

\* The same program with a pool constructed with one more queue slot, so that
\* several requests wait in the queue at once.
InitQ == InitWith(NumReqs, PoolCap, QueueCap + 1, MaxConnIds, MaxFaults, {})

SpecQ == InitQ /\ [][Next]_vars

\* The configuration for the retry claims: one request fewer, one more
\* failure than the retry budget of a single request needs to run out, one
\* more connection, and every request's failed attempts observed.
InitR == InitWith(NumReqs - 1, PoolCap, QueueCap, MaxConnIds + 1,
                  MaxFaults + 1, 1..(NumReqs - 1))

SpecR == InitR /\ [][Next]_vars

\* new ClamAVConnectionPool(2, 1) serving four uploads; the daemon accepts
\* three connections and the link can fail twice.
InitSmall == InitWith(4, 2, 1, 3, 2, {})

SpecSmall == InitSmall /\ [][Next]_vars

\* The configuration of Spec with every request's failed attempts observed.
InitObs == InitWith(NumReqs, PoolCap, QueueCap, MaxConnIds, MaxFaults,
                    1..NumReqs)

SpecObs == InitObs /\ [][Next]_vars

\* The configuration of Spec with a link whose scans can also fail with an
\* Error that has no code.
InitE == InitFull(NumReqs, PoolCap, QueueCap, MaxConnIds, MaxFaults, {},
                  ScanErrCodes)

SpecE == InitE /\ [][Next]_vars

\* new ClamAVConnectionPool(1, 2) serving three uploads over a link that can
\* fail twice, with a daemon that accepts a connection for every
\* establishment the run can start (six: one per upload, one per failure and
\* the warm-up), and in which every asynchronous operation completes: the
\* daemon answers every scanStream (with a result or an error), every
\* _createConnection() settles and every retry timer fires.
InitLive == InitWith(3, 1, 2, 6, 2, {})

Completes(r) ==
    /\ WF_vars(\E out \in ScanOutcomes : ScanDone(r, out))
    /\ WF_vars(CreateOk(r) \/ \E code \in CreateErrCodes : CreateFail(r, code))
    /\ WF_vars(RetryFire(r))

SpecLive == InitLive /\ [][Next]_vars /\ \A r \in 1..3 : Completes(r)

\* new ClamAVConnectionPool(1, 1) serving two uploads over a link that can
\* fail any number of times, at every establishment and every scan, with a
\* daemon that accepts two connections (further establishments fail); every
\* asynchronous operation completes.
InitTerm == InitWith(2, 1, 1, 2, Unlimited, {})

SpecTerm == InitTerm /\ [][Next]_vars /\ \A r \in 1..2 : Completes(r)

\* =================================================================
\* scanWithStream: interpretation of the daemon's response
\* =================================================================
\* Longest text (in tokens) of the response's file field.
MaxFileLen == 4

\* JavaScript values. A string is a sequence of tokens, each token standing
\* for a run of characters without white space or for one blank; an array is
\* a sequence of values.
Undef == [t |-> "undefined"]
Bool(b) == [t |-> "boolean", b |-> b]
Num(n) == [t |-> "number", n |-> n]
Str(s) == [t |-> "string", s |-> s]
Arr(a) == [t |-> "array", a |-> a]

\* ToBoolean(v)
Truthy(v) ==
    CASE v.t = "undefined" -> FALSE
      [] v.t = "boolean" -> v.b
      [] v.t = "number" -> v.n # 0
      [] v.t = "string" -> Len(v.s) > 0
      [] v.t = "array" -> TRUE
\* a && b, a || b (the value, not its truth)
And(a, b) == IF Truthy(a) THEN b ELSE a
Or(a, b) == IF Truthy(a) THEN a ELSE b
\* Array.isArray(v)
IsArray(v) == v.t = "array"
\* v.length > 0 (undefined > 0 is false)
LengthPositive(v) ==
    CASE v.t = "string" -> Len(v.s) > 0
      [] v.t = "array" -> Len(v.a) > 0
      [] OTHER -> FALSE

\* The tokens of a file text: the marker in both cases, the other trigger
\* word, a blank and a threat name.
FileTokens == {"FOUND:", "found:", "Infected", " ", "EICAR-Test-File"}
\* The token contains 'FOUND' / 'Infected' (case-sensitive).
HasFOUND(tok) == tok = "FOUND:"
HasInfected(tok) == tok = "Infected"
\* The token is matched by /FOUND:/i; by \s.
IsMarker(tok) == tok \in {"FOUND:", "found:"}
IsSpace(tok) == tok = " "

\* s.includes('FOUND') || s.includes('Infected')
IncludesTrigger(s) == \E i \in 1..Len(s) : HasFOUND(s[i]) \/ HasInfected(s[i])

\* s.trim()
RECURSIVE TrimLeft(_)
TrimLeft(s) == IF Len(s) > 0 /\ IsSpace(s[1]) THEN TrimLeft(Tail(s)) ELSE s
RECURSIVE TrimRight(_)
TrimRight(s) ==
    IF Len(s) > 0 /\ IsSpace(s[Len(s)])
      THEN TrimRight(SubSeq(s, 1, Len(s) - 1)) ELSE s
\* trim() that forgets the end of the string.
Trim_leftOnly(s) == TrimLeft(s)
Trim(s) == TrimRight(TrimLeft(s))

\* s.match(/FOUND:\s*(.+)/i): the group of the leftmost match (<<>> paired
\* with matched = FALSE when there is none). The match starts at the first
\* marker that something follows; \s* takes the blanks after it, giving the
\* last one back when nothing else is left for (.+), which runs to the end.
FoundMatch(s) ==
    LET starts == {i \in 1..(Len(s) - 1) : IsMarker(s[i])}
    IN  IF starts = {} THEN [matched |-> FALSE, group |-> <<>>]
        ELSE LET i == CHOOSE k \in starts : \A m \in starts : k <= m
                 rest == {j \in (i + 1)..Len(s) : ~IsSpace(s[j])}
                 from == IF rest = {} THEN Len(s)
                         ELSE CHOOSE j \in rest : \A m \in rest : j <= m
             IN  [matched |-> TRUE, group |-> SubSeq(s, from, Len(s))]

\* The responses the daemon library hands to the scanStream callback.
ResultStrings == {Str(<<"OK">>), Str(<<"UNKNOWN COMMAND">>)}
Name == Str(<<"EICAR-Test-File">>)
IsInfectedValues == {Undef, Bool(TRUE), Bool(FALSE), Str(<<"true">>), Num(1)}
InfectedValues == {Undef, Bool(TRUE)}
VirusesValues == {Undef, Arr(<<>>), Arr(<<Name>>), Name}
VirusValues == {Undef, Str(<<>>), Name, Arr(<<>>), Arr(<<Name>>), Num(5)}
FileValues ==
    {Undef} \cup
    {Str(s) : s \in UNION {[1..n -> FileTokens] : n \in 0..MaxFileLen}}
Responses ==
    [resultString : ResultStrings, isInfected : IsInfectedValues,
     infected : InfectedValues, viruses : VirusesValues, virus : VirusValues,
     file : FileValues]

\* object.resultString === 'UNKNOWN COMMAND'
IsUnknownCommand(object) == object.resultString = Str(<<"UNKNOWN COMMAND">>)

\* const hasViruses, isInfectedFlag, hasVirusInName, isInfected
hasViruses(object) ==
    Or(And(And(object.viruses, Bool(IsArray(object.viruses))),
           Bool(LengthPositive(object.viruses))),
       And(object.virus, Bool(LengthPositive(object.virus))))
isInfectedFlag(object) ==
    Bool(\/ object.isInfected = Bool(TRUE)
         \/ object.isInfected = Str(<<"true">>)
         \/ object.isInfected = Num(1)
         \/ object.infected = Bool(TRUE))
hasVirusInName(object) ==
    And(And(object.file, Bool(object.file.t = "string")),
        Bool(object.file.t = "string" /\ IncludesTrigger(object.file.s)))
isInfectedOf(object) ==
    Or(Or(isInfectedFlag(object), hasViruses(object)), hasVirusInName(object))

\* let viruses = [] ... : the names taken from the first location that has
\* them: viruses (an array), virus, the text of file.
ExtractViruses(object) ==
    IF Truthy(object.viruses) /\ IsArray(object.viruses)
      THEN object.viruses.a
    ELSE IF Truthy(object.virus)
      THEN IF IsArray(object.virus) THEN object.virus.a ELSE <<object.virus>>
    ELSE IF Truthy(hasVirusInName(object)) /\ Truthy(object.file)
      THEN LET match == FoundMatch(object.file.s)
           IN  IF match.matched THEN <<Str(Trim(match.group))>> ELSE <<>>
    ELSE <<>>

\* The label pushed when the result is infected and no name was found.
GenericLabel == Str(<<"Threat detected">>)
\* The push left out.
WithLabel_none(isInfected, viruses) == viruses
\* if (isInfected && viruses.length === 0) viruses.push('Threat detected')
WithLabel(isInfected, viruses) ==
    IF Truthy(isInfected) /\ Len(viruses) = 0 THEN <<GenericLabel>> ELSE viruses

\* The response object after the callback: `viruses` is the response's own
\* array when it is taken from object.viruses or from an array object.virus,
\* so the push of the label lands in the response as well.
AfterPush(object) ==
    IF ~(Truthy(isInfectedOf(object)) /\ Len(ExtractViruses(object)) = 0)
      THEN object
    ELSE IF Truthy(object.viruses) /\ IsArray(object.viruses)
      THEN [object EXCEPT !.viruses = Arr(<<GenericLabel>>)]
    ELSE IF Truthy(object.virus) /\ IsArray(object.virus)
      THEN [object EXCEPT !.virus = Arr(<<GenericLabel>>)]
    ELSE object

\* The UNKNOWN COMMAND test made after the interpretation instead of before.
Interpret_lateFallback(object) ==
    [isInfected |-> isInfectedOf(object),
     viruses |-> WithLabel(isInfectedOf(object), ExtractViruses(object)),
     rawResult |-> AfterPush(object),
     method |-> IF IsUnknownCommand(object) THEN "clamdscan (stream - failed)"
                ELSE "clamdscan (stream)",
     needsFallback |-> IF IsUnknownCommand(object) THEN Bool(TRUE) ELSE Undef]

\* What the scanStream callback resolves with for the response object (the
\* timing fields left out; needsFallback reads as undefined where the result
\* has no such property; rawResult is the response object, as it is after
\* the callback).
Interpret(object) ==
    IF IsUnknownCommand(object)
      THEN [isInfected |-> Bool(FALSE), viruses |-> <<>>,
            rawResult |-> object,
            method |-> "clamdscan (stream - failed)",
            needsFallback |-> Bool(TRUE)]
      ELSE [isInfected |-> isInfectedOf(object),
            viruses |-> WithLabel(isInfectedOf(object), ExtractViruses(object)),
            rawResult |-> AfterPush(object),
            method |-> "clamdscan (stream)",
            needsFallback |-> Undef]

\* What ScanCallback calls the outcome of a callback without error.
OutcomeOf(object) ==
    IF IsUnknownCommand(object) THEN "UNKNOWN_COMMAND" ELSE "OK"

\* The scanStream callback of request r's attempt is called with (null,
\* object): the connection is released and the result resolved.
RespondWith(r, object) ==
    /\ ScanCallback(r, OutcomeOf(object))
    /\ resp' = object
    /\ result' = Interpret(object)
Respond(r) ==
    /\ pc[r] = "scanning"
    /\ \E object \in Responses : RespondWith(r, object)
    /\ UNCHANGED upload

\* One upload on a server whose warm-up has connected: the daemon accepts the
\* one connection and the link does not fail.
InitI == InitWith(1, PoolCap, QueueCap, 1, 0, {})

NextI ==
    \/ \E ok \in BOOLEAN : BootDone(ok)
    \/ \E r \in Reqs : StartReady(r)
    \/ \E r \in Reqs : Respond(r)

SpecI == InitI /\ [][NextI]_vars

\* =================================================================
\* _createConnection: the establishment attempts of one call
\* =================================================================
\* Everything but the locals of the call and the initialized flag.
outsideCreate ==
    <<config, daemon, pool, inUse, queue, bootPc, pc, conn, retryCount, err,
      nextConn, faultsLeft, faulted, resumed, lastFailed, resp, result,
      upload>>

\* The catch block with the test attempt <= maxRetries.
AfterFailedAttempt_offByOne(att, code) ==
    IF att <= createMaxRetries
      THEN [cpc |-> "sleep", wait |-> <<delay * att>>, cerr |-> "none"]
      ELSE [cpc |-> "thrown", wait |-> <<>>, cerr |-> code]
\* The catch block of the loop after attempt att failed with code: sleep
\* delay * attempt before the next attempt, or throw the error after the last.
AfterFailedAttempt(att, code) ==
    IF att < createMaxRetries
      THEN [cpc |-> "sleep", wait |-> <<delay * att>>, cerr |-> "none"]
      ELSE [cpc |-> "thrown", wait |-> <<>>, cerr |-> code]

\* _createConnection() is called: for (let attempt = 1; ...) await init().
CreateCall ==
    /\ cpc = "idle"
    /\ attempt' = 1
    /\ cpc' = "init"
    /\ UNCHANGED <<outsideCreate, initialized, tries, waits, cerr>>

\* new NodeClam().init() resolves: the flag is set, the connection returned.
AttemptOk ==
    /\ cpc = "init"
    /\ tries' = Append(tries, "ok")
    /\ initialized' = TRUE
    /\ cpc' = "returned"
    /\ UNCHANGED <<outsideCreate, attempt, waits, cerr>>

\* new NodeClam().init() rejects with an error of the given code.
AttemptFail(code) ==
    /\ cpc = "init"
    /\ tries' = Append(tries, code)
    /\ LET next == AfterFailedAttempt(attempt, code)
       IN  /\ cpc' = next.cpc
           /\ waits' = waits \o next.wait
           /\ cerr' = next.cerr
    /\ UNCHANGED <<outsideCreate, initialized, attempt>>

\* The setTimeout of the catch block fires: attempt++, and the loop goes on
\* (or ends, the function returning undefined, when attempt > maxRetries).
SleepDone ==
    /\ cpc = "sleep"
    /\ attempt' = attempt + 1
    /\ cpc' = IF attempt + 1 <= createMaxRetries THEN "init" ELSE "returned"
    /\ UNCHANGED <<outsideCreate, initialized, tries, waits, cerr>>

NextCreate ==
    \/ CreateCall
    \/ AttemptOk
    \/ \E code \in CreateErrCodes : AttemptFail(code)
    \/ SleepDone

SpecCreate == Init /\ [][NextCreate]_vars

\* =================================================================
\* POST /upload: the checks before scanFile
\* =================================================================
\* A byte count hi * 65536 + lo (JavaScript numbers are exact far beyond
\* 2^32; the two digits keep the count exact here as well).
Size(hi, lo) == [hi |-> hi, lo |-> lo]
IsZero(a) == a.hi = 0 /\ a.lo = 0
\* a > b
Gt(a, b) == a.hi > b.hi \/ (a.hi = b.hi /\ a.lo > b.lo)

\* const MAX_FILE_SIZE_FOR_SCAN = 2147483647 = 32767 * 65536 + 65535
MAX_FILE_SIZE_FOR_SCAN == Size(32767, 65535)

\* The sizes of the uploads: 0, 1, 65535, 65536, ..., 2^31 - 2, 2^31 - 1,
\* 2^31, ..., 2^32, 2^32 + 1, ...
UploadSizes ==
    {Size(hi, lo) : hi \in {0, 1, 32767, 32768, 65536}, lo \in {0, 1, 65534, 65535}}
\* req.file as Multer's memory storage leaves it (size is the length of the
\* buffer), and a file object without a size (NoSize).
UploadFiles ==
    {[size |-> s, length |-> s] : s \in UploadSizes}
      \cup {[size |-> NoSize, length |-> s] : s \in UploadSizes}

\* const fileSize = req.file.size || req.file.buffer.length
fileSizeOf(file) ==
    IF file.size # NoSize /\ ~IsZero(file.size) THEN file.size ELSE file.length

\* The size test that lets MAX_FILE_SIZE_FOR_SCAN + 1 through.
Validate_offByOne(enable, file) ==
    LET fileSize == fileSizeOf(file)
        limit == Size(32768, 0)
    IN  IF IsZero(fileSize)
          THEN [hpc |-> "returned",
                http |-> [status |-> 400, stage |-> "validation_failed"]]
        ELSE IF enable /\ Gt(fileSize, limit)
          THEN [hpc |-> "returned",
                http |-> [status |-> 400, stage |-> "validation_failed"]]
        ELSE IF enable
          THEN [hpc |-> "scanFile", http |-> NoHttp]
        ELSE [hpc |-> "returned", http |-> [status |-> 200, stage |-> "none"]]
\* The handler from `const fileSize` to the call of scanFile: an empty file
\* and, with scanning enabled, a file above MAX_FILE_SIZE_FOR_SCAN are
\* answered 400; with scanning disabled the file is processed and answered
\* 200 without a scan.
Validate(enable, file) ==
    LET fileSize == fileSizeOf(file)
    IN  IF IsZero(fileSize)
          THEN [hpc |-> "returned",
                http |-> [status |-> 400, stage |-> "validation_failed"]]
        ELSE IF enable /\ Gt(fileSize, MAX_FILE_SIZE_FOR_SCAN)
          THEN [hpc |-> "returned",
                http |-> [status |-> 400, stage |-> "validation_failed"]]
        ELSE IF enable
          THEN [hpc |-> "scanFile", http |-> NoHttp]
        ELSE [hpc |-> "returned", http |-> [status |-> 200, stage |-> "none"]]

\* res.status(..).json(..): the response h goes out unless one was sent
\* before (then json() throws inside the handler's try, the catch block finds
\* res.headersSent and only logs).
Send(h) == IF http.status # 0 THEN http ELSE h

\* A message (error.message) is the sequence of its characters.
\* String.prototype.includes: t occurs in s as a run of consecutive characters
\* (case-sensitive).
Includes(s, t) ==
    \E i \in 0..(Len(s) - Len(t)) : SubSeq(s, i + 1, i + Len(t)) = t
\* The needle of the catch block: error.message.includes('timeout')
timeoutNeedle == <<"t", "i", "m", "e", "o", "u", "t">>
\* acquire(): new Error('Connection pool queue is full. ...')
QueueFullMessage ==
    <<"C", "o", "n", "n", "e", "c", "t", "i", "o", "n", " ", "p", "o", "o",
      "l", " ", "q", "u", "e", "u", "e", " ", "i", "s", " ", "f", "u", "l",
      "l", ".", " ", "T", "o", "o", " ", "m", "a", "n", "y", " ", "c", "o",
      "n", "c", "u", "r", "r", "e", "n", "t", " ", "s", "c", "a", "n", " ",
      "r", "e", "q", "u", "e", "s", "t", "s", ".">>
\* scanFile: new Error('Stream scanning returned UNKNOWN COMMAND - ...')
UnknownCommandMessage ==
    <<"S", "t", "r", "e", "a", "m", " ", "s", "c", "a", "n", "n", "i", "n",
      "g", " ", "r", "e", "t", "u", "r", "n", "e", "d", " ", "U", "N", "K",
      "N", "O", "W", "N", " ", "C", "O", "M", "M", "A", "N", "D", " ", "-",
      " ", "C", "l", "a", "m", "A", "V", " ", "s", "t", "r", "e", "a", "m",
      " ", "s", "c", "a", "n", "n", "i", "n", "g", " ", "m", "a", "y", " ",
      "n", "o", "t", " ", "b", "e", " ", "s", "u", "p", "p", "o", "r", "t",
      "e", "d">>
\* Messages of the errors the client library hands over (its scanStream
\* callback, its init()): with 'timeout', without, with a capital T, and
\* 'timed out'.
\* 'Scan aborted: socket timeout'
MsgSocketTimeout ==
    <<"S", "c", "a", "n", " ", "a", "b", "o", "r", "t", "e", "d", ":", " ",
      "s", "o", "c", "k", "e", "t", " ", "t", "i", "m", "e", "o", "u", "t">>
\* 'Scan aborted. Reply from server: ERROR'
MsgReplyError ==
    <<"S", "c", "a", "n", " ", "a", "b", "o", "r", "t", "e", "d", ".", " ",
      "R", "e", "p", "l", "y", " ", "f", "r", "o", "m", " ", "s", "e", "r",
      "v", "e", "r", ":", " ", "E", "R", "R", "O", "R">>
\* 'Timeout while scanning'
MsgTimeoutCapital ==
    <<"T", "i", "m", "e", "o", "u", "t", " ", "w", "h", "i", "l", "e", " ",
      "s", "c", "a", "n", "n", "i", "n", "g">>
\* 'Connection to host has timed out.'
MsgTimedOut ==
    <<"C", "o", "n", "n", "e", "c", "t", "i", "o", "n", " ", "t", "o", " ",
      "h", "o", "s", "t", " ", "h", "a", "s", " ", "t", "i", "m", "e", "d",
      " ", "o", "u", "t", ".">>
ErrorMessages ==
    {MsgSocketTimeout, MsgReplyError, MsgTimeoutCapital, MsgTimedOut}
\* The turn has no error of the library.
NoMessage == <<>>
\* error.message of the error scanFile threw: the pool's and scanFile's own
\* errors carry their fixed messages, an error of the library carries message.
MessageOf(errr, message) ==
    CASE errr = "PoolExhausted" -> QueueFullMessage
      [] errr = "ProtocolUnsupported" -> UnknownCommandMessage
      [] OTHER -> message

\* The catch block of the handler: the response for the error scanFile threw,
\* by its code and its message.
ErrorResponse(code, message) ==
    IF code \in TransportCodes
      THEN [status |-> 503, stage |-> "connection_error"]
    ELSE IF code = "ETIMEDOUT" \/ Includes(message, timeoutNeedle)
      THEN [status |-> 504, stage |-> "timeout_error"]
    ELSE [status |-> 500, stage |-> "processing_error"]
\* The response for the result scanFile returned.
ScanResponse(res) ==
    IF Truthy(res.isInfected) THEN [status |-> 400, stage |-> "none"]
    ELSE [status |-> 200, stage |-> "none"]

\* The handler behind its `await scanFile(..)`, in the turn in which the
\* request's scanFile came to position pcr (error errr, whose message is
\* message when the library made it; result res): it answers when scanFile
\* returned or threw and goes on waiting otherwise.
AfterScanFile(pcr, errr, message, res) ==
    CASE pcr = "done" -> [hpc |-> "returned", http |-> Send(ScanResponse(res))]
      [] pcr = "failed" ->
           [hpc |-> "returned",
            http |-> Send(ErrorResponse(errr, MessageOf(errr, message)))]
      [] OTHER -> [hpc |-> "scanFile", http |-> http]

\* The handler of request r from `const fileSize` on, with the collection p:
\* the file is refused or processed without a scan (the request is then
\* "skipped": scanFile is never called for it), or scanFile is called and
\* with it, in the same turn, connectionPool.acquire().
HandlerChecks(r, file, p) ==
    LET v == Validate(enableScan, file)
    IN  IF v.hpc = "scanFile"
          THEN /\ ScanFileCall(r, p, inUse, 0)
               /\ hpc' = AfterScanFile(pc'[r], err'[r], NoMessage, result).hpc
               /\ http' = AfterScanFile(pc'[r], err'[r], NoMessage, result).http
          ELSE /\ pool' = p
               /\ pc' = [pc EXCEPT ![r] = "skipped"]
               /\ hpc' = "returned"
               /\ http' = Send(v.http)
               /\ UNCHANGED <<inUse, queue, conn, retryCount, err>>

\* POST /upload is called for request r with req.file = file (NoFile: no
\* file): answered 400 without a file; awaits initClamScan() when scanning is
\* enabled and the pool is not ready; else goes on to the checks of the size
\* and to scanFile.
UploadReceived(r, file) ==
    /\ hpc = "idle" /\ pc[r] = "new"
    /\ upFile' = file
    /\ IF file = NoFile
         THEN /\ hpc' = "returned"
              /\ http' = Send([status |-> 400, stage |-> "none"])
              /\ pc' = [pc EXCEPT ![r] = "skipped"]
              /\ UNCHANGED <<pool, inUse, queue, conn, retryCount, err>>
         ELSE IF enableScan /\ ~isReady(initialized, pool)
           THEN /\ hpc' = "lazyinit"
                /\ pc' = [pc EXCEPT ![r] = "lazyinit"]
                /\ UNCHANGED <<http, pool, inUse, queue, conn, retryCount, err>>
           ELSE HandlerChecks(r, file, pool)
    /\ UNCHANGED <<besideScan, enableScan>>

\* The initClamScan() awaited by the handler settles (a created connection is
\* pushed idle, a failure is swallowed) and the handler goes on to the checks.
UploadLazyDone(r, ok) ==
    /\ hpc = "lazyinit" /\ pc[r] = "lazyinit"
    /\ IF ok
         THEN /\ nextConn <= connLimit
              /\ nextConn' = nextConn + 1
              /\ initialized' = TRUE
              /\ faultsLeft' = faultsLeft
              /\ HandlerChecks(r, upFile, Append(pool, nextConn))
         ELSE /\ CanFail(faultsLeft)
              /\ faultsLeft' = Spend(faultsLeft)
              /\ UNCHANGED <<nextConn, initialized>>
              /\ HandlerChecks(r, upFile, pool)
    /\ UNCHANGED <<config, daemon, resp, result, crt, bootPc, faulted, resumed,
                   lastFailed, enableScan, upFile>>

\* The 'timeout' event of the request fires while the handler waits: 408,
\* unless a response was sent (the handler goes on waiting either way).
UploadTimeout ==
    /\ hpc \in {"lazyinit", "scanFile"}
    /\ http.status = 0
    /\ http' = [status |-> 408, stage |-> "upload_timeout"]
    /\ UNCHANGED <<besideScan, pool, inUse, queue, pc, conn, retryCount, err,
                   enableScan, upFile, hpc>>

\* The _createConnection() of the upload's acquire() fails with an error of
\* the library (code, message).
UploadCreateFail(r, code, message) ==
    /\ hpc = "scanFile"
    /\ CreateThrows(r, code)
    /\ hpc' = AfterScanFile(pc'[r], err'[r], message, result).hpc
    /\ http' = AfterScanFile(pc'[r], err'[r], message, result).http
    /\ UNCHANGED <<enableScan, upFile>>

\* The responses of the daemon to the upload's scan.
HandlerResponses ==
    [resultString : ResultStrings,
     isInfected : {Undef, Bool(TRUE), Bool(FALSE)}, infected : {Undef},
     viruses : {Undef, Arr(<<>>), Arr(<<Name>>)}, virus : {Undef},
     file : {Undef}]

\* scanStream calls back with a response for the upload's scan.
UploadScanResponse(r) ==
    /\ hpc = "scanFile" /\ pc[r] = "scanning"
    /\ \E object \in HandlerResponses :
          /\ RespondWith(r, object)
          /\ hpc' = AfterScanFile(pc'[r], err'[r], NoMessage, result').hpc
          /\ http' = AfterScanFile(pc'[r], err'[r], NoMessage, result').http
    /\ UNCHANGED <<enableScan, upFile>>

\* scanStream calls back with an error (code; message) for the upload's
\* scan.
UploadScanError(r, code, message) ==
    /\ hpc = "scanFile"
    /\ ScanCallback(r, code)
    /\ hpc' = AfterScanFile(pc'[r], err'[r], message, result).hpc
    /\ http' = AfterScanFile(pc'[r], err'[r], message, result).http
    /\ UNCHANGED <<resp, result, enableScan, upFile>>

\* The retry timer of the upload's scanFile fires.
UploadRetryFire(r) ==
    /\ hpc = "scanFile" /\ pc[r] = "backoff"
    /\ ScanFileCall(r, pool, inUse, retryCount[r] + 1)
    /\ hpc' = AfterScanFile(pc'[r], err'[r], NoMessage, result).hpc
    /\ http' = AfterScanFile(pc'[r], err'[r], NoMessage, result).http
    /\ UNCHANGED <<besideScan, enableScan, upFile>>

\* The server with ENABLE_VIRUS_SCAN set either way, before its one upload;
\* the daemon accepts one connection more and the link can fail once more
\* than in Init, so that the upload can use up its retries.
InitUpload ==
    /\ InitPool(1, PoolCap, QueueCap, MaxConnIds + 1, MaxFaults + 1, {},
                ScanErrCodes)
    /\ enableScan \in BOOLEAN
    /\ upFile = NoFile
    /\ hpc = "idle"
    /\ http = NoHttp

NextUpload ==
    \/ \E ok \in BOOLEAN : BootDone(ok)
    \/ \E r \in Reqs, file \in UploadFiles \cup {NoFile} : UploadReceived(r, file)
    \/ \E r \in Reqs, ok \in BOOLEAN : UploadLazyDone(r, ok)
    \/ UploadTimeout
    \/ \E r \in Reqs : CreateOk(r)
    \/ \E r \in Reqs, code \in CreateErrCodes, message \in ErrorMessages :
          UploadCreateFail(r, code, message)
    \/ \E r \in Reqs : UploadScanResponse(r)
    \/ \E r \in Reqs, code \in ScanErrCodes, message \in ErrorMessages :
          UploadScanError(r, code, message)
    \/ \E r \in Reqs : UploadRetryFire(r)

SpecUpload == InitUpload /\ [][NextUpload]_vars

\* =================================================================
\* Properties
\* =================================================================
Scanning(r) == pc[r] = "scanning"
\* Connection c is in the collection and not marked in-use.
Idle(c) == c \in Range(pool) /\ c \notin inUse
\* Position of request r in sequence q (0 when absent).
Pos(q, r) == IndexOf(q, r)
\* The pool holds maxConnections connections, none idle, and the queue is full.
Saturated ==
    /\ Len(pool) = maxConnections
    /\ Range(pool) \subseteq inUse
    /\ Len(queue) = maxQueueSize
\* Request r calls acquire() on the pool as it stands before the step.
CallsAcquire(r) == StartReady(r) \/ RetryFire(r) \/ LazyInitDone(r, FALSE)

\* C1: no connection is held by two scan callers at the same time.
C1_NoSharedConnection ==
    \A a, b \in Reqs :
        (a # b /\ Scanning(a) /\ Scanning(b)) => conn[a] # conn[b]

\* Two scans run at once, one of them on a connection it received from a
\* release() while it waited in the queue.
C1_Witness ==
    \E a, b \in Reqs :
        /\ a # b /\ Scanning(a) /\ Scanning(b)
        /\ conn[a] # NoConn /\ conn[b] # NoConn
        /\ a \in resumed

\* C2 (as claimed): the number of connections marked in-use never exceeds
\* maxConnections.
C2_InUseWithinMax == Cardinality(inUse) <= maxConnections

\* C3 (as claimed): the pool collection never holds more than maxConnections
\* connections.
C3_PoolWithinMax == Len(pool) <= maxConnections

\* C4 (as claimed): every connection marked in-use is in the collection, so
\* the in-use count is at most the collection's size.
C4_InUseSubsetOfPool ==
    /\ inUse \subseteq Range(pool)
    /\ Cardinality(inUse) <= Len(pool)

\* C5: the wait queue never holds more than maxQueueSize requests.
C5_QueueBounded == Len(queue) <= maxQueueSize

\* The queue is full and a further acquire() has been rejected.
C5_Witness ==
    /\ Len(queue) = maxQueueSize
    /\ \E r \in Reqs : pc[r] = "failed" /\ err[r] = "PoolExhausted"

\* C6: with maxConnections connections, none idle, and a full queue, acquire()
\* fails at once with PoolExhausted and changes neither the collection, the
\* in-use set nor the queue.
C6_SaturatedAcquireRejected ==
    [][\A r \in Reqs :
         (Saturated /\ CallsAcquire(r)) =>
            /\ pc'[r] = "failed"
            /\ err'[r] = "PoolExhausted"
            /\ UNCHANGED <<pool, inUse, queue>>]_vars

\* A request has been rejected and the pool is still saturated.
C6_Witness ==
    /\ Saturated
    /\ \E r \in Reqs : pc[r] = "failed" /\ err[r] = "PoolExhausted"

\* C7: queued requests are served in arrival order: the queue holds exactly
\* the suspended requests, a new one joins at the back, only the front one is
\* resumed (with a connection), and no request overtakes one queued before it.
C7_QueueFifo ==
    /\ [](Range(queue) = {r \in Reqs : pc[r] = "waiting"})
    /\ [][/\ \A a \in Reqs :
               (pc[a] = "waiting" /\ pc'[a] # "waiting") =>
                  /\ a = Head(queue)
                  /\ queue' = Tail(queue)
                  /\ pc'[a] = "scanning"
                  /\ conn'[a] # NoConn
          /\ \A a \in Reqs :
               (pc[a] # "waiting" /\ pc'[a] = "waiting") =>
                  queue' = Append(queue, a)
          /\ \A a, b \in Reqs :
               (pc[a] = "waiting" /\ pc[b] = "waiting"
                  /\ Pos(queue, a) < Pos(queue, b)) =>
                  /\ ~(pc'[b] # "waiting" /\ pc'[a] = "waiting")
                  /\ (pc'[a] = "waiting" /\ pc'[b] = "waiting") =>
                        Pos(queue', a) < Pos(queue', b)]_vars

\* A waiter has been resumed while a request queued behind it still waits.
C7_Witness ==
    \E a \in resumed, b \in Reqs :
        Scanning(a) /\ pc[b] = "waiting" /\ Len(queue) > 0

\* C8: release(c) with a non-empty queue resolves the front waiter with c, takes
\* it off the queue and leaves c marked in-use, so c is not what an acquire()
\* finds idle; and in no state is a connection that a request scans on idle in
\* the collection, a resumed waiter's connection being marked in-use unless
\* the same callback evicted it.
C8_ReleaseHandsOver ==
    /\ \A r \in Reqs :
         (Scanning(r) /\ Len(queue) > 0) =>
            LET rel == release(inUse, queue, conn[r])
            IN  /\ rel.resolved = Head(queue)
                /\ rel.queue = Tail(queue)
                /\ conn[r] \in rel.inUse
                /\ FindIdle(pool, rel.inUse) # conn[r]
    /\ \A r \in Reqs : Scanning(r) => ~Idle(conn[r])
    /\ \A r \in resumed :
         Scanning(r) /\ (conn[r] \in inUse \/ conn[r] \in faulted)

\* A resumed waiter scans on a connection of the collection that is marked
\* in-use while a request that has not called acquire() yet can still arrive.
C8_Witness ==
    \E r \in resumed, x \in Reqs :
        /\ Scanning(r)
        /\ conn[r] \in Range(pool) /\ conn[r] \in inUse
        /\ pc[x] = "new"

\* C9 (as claimed): removeConnection(c) shrinks the collection by exactly one,
\* clears c's in-use marker, and c is never idle in the collection afterwards.
C9_RemoveShrinksByOne ==
    /\ [][\A r \in Reqs : \A out \in TransportCodes :
            ScanDone(r, out) =>
               /\ Len(pool') = Len(pool) - 1
               /\ conn[r] \notin inUse']_vars
    /\ [](\A c \in faulted : ~Idle(c))

\* C10 (as claimed): no scan runs on a connection on which a transport-level
\* failure has occurred.
C10_NoScanOnFaulted ==
    \A r \in Reqs : Scanning(r) => conn[r] \notin faulted

\* C11: when a scan fails with a transport-level error (EPIPE, ECONNRESET), the
\* connection it ran on is absent from the collection from the moment the
\* failure is delivered to scanFile: the callback that rejects has already
\* spliced it out, and it never comes back.
C11_FailedConnectionAbsent ==
    /\ \A c \in faulted : c \notin Range(pool)
    /\ \A r \in DOMAIN lastFailed :
         (pc[r] \in {"backoff", "failed"} /\ lastFailed[r] # NoConn) =>
            lastFailed[r] \notin Range(pool)

\* A transport failure has been delivered to a request (it is backing off)
\* while the collection still holds another connection.
C11_Witness ==
    \E r \in DOMAIN lastFailed :
        /\ pc[r] = "backoff"
        /\ lastFailed[r] # NoConn
        /\ lastFailed[r] \in faulted
        /\ Len(pool) > 0

\* Requests whose acquire() is waiting for its own connection creation, and
\* requests whose acquire() is suspended in the queue.
Creating == {r \in Reqs : pc[r] = "creating"}
Waiting == {r \in Reqs : pc[r] = "waiting"}
\* Requests whose acquire() was rejected.
Rejected == {r \in Reqs : pc[r] = "failed" /\ err[r] = "PoolExhausted"}

\* C12 (as claimed): with capacity 2 and queue capacity 1, of the scans that
\* call acquire() on the empty collection while none holds a connection, the
\* first two create a connection, the third (two creations pending) waits in
\* the queue, and the fourth (two creations pending, one waiter) is rejected
\* with PoolExhausted at once.
C12_TwoCreateOneWaits ==
    [][\A r \in Reqs :
         (/\ CallsAcquire(r)
          /\ maxConnections = 2 /\ maxQueueSize = 1
          /\ Len(pool) = 0 /\ inUse = {})
         => /\ (Cardinality(Creating) < 2 /\ Waiting = {})
                 => pc'[r] = "creating"
            /\ (Cardinality(Creating) = 2 /\ Waiting = {})
                 => (pc'[r] = "waiting" /\ queue' = <<r>>)
            /\ (Cardinality(Creating) = 2 /\ Cardinality(Waiting) = 1)
                 => (r \in Rejected' /\ queue' = queue)]_vars

\* The attempts scanFile has started for request r (0 before scanFile is
\* called): the first call and one per retry.
Attempts(r) == IF pc[r] \in {"new", "lazyinit"} THEN 0 ELSE retryCount[r] + 1

\* C13: with retry budget maxRetries, one scanFile call starts at most
\* maxRetries + 1 attempts; when the attempt number maxRetries + 1 fails with
\* EPIPE/ECONNRESET (a scan or a connection establishment), scanFile fails with
\* that attempt's error, and a failed scanFile never starts another attempt.
C13_AtMostBudgetPlusOne ==
    /\ [](\A r \in Reqs : Attempts(r) <= maxRetries + 1)
    /\ [][\A r \in Reqs : \A out \in TransportCodes :
            ((ScanDone(r, out) \/ CreateFail(r, out))
              /\ Attempts(r) = maxRetries + 1)
            => /\ pc'[r] = "failed"
               /\ err'[r] = out
               /\ retryCount'[r] = retryCount[r]]_vars
    /\ [][\A r \in Reqs :
            pc[r] = "failed" =>
               (pc'[r] = "failed" /\ retryCount'[r] = retryCount[r]
                /\ err'[r] = err[r])]_vars

\* A request has failed on its third attempt, a scan that lost the connection,
\* after all three link failures of the run have hit its attempts.
C13_Witness ==
    \E r \in DOMAIN lastFailed :
        /\ pc[r] = "failed"
        /\ err[r] \in TransportCodes
        /\ Attempts(r) = maxRetries + 1
        /\ lastFailed[r] # NoConn
        /\ faultsLeft = 0

\* The retry budget of request r is used up: its attempt number
\* maxRetries + 1 is under way.
BudgetUsedUp(r) == Attempts(r) = maxRetries + 1
\* Request r's attempt fails with the connection error out in this step.
FailsWith(r, out) == ScanDone(r, out) \/ CreateFail(r, out)

\* C14: when scanFile fails because the retry budget is used up,
\* the error thrown to the caller is the last underlying error and carries
\* the number of attempts made.
C14_ErrorCarriesAttempts ==
    [][\A r \in Reqs : \A out \in TransportCodes :
         (FailsWith(r, out) /\ BudgetUsedUp(r)) =>
            LET e == ScanFileCatch(r, out).thrown
            IN  /\ e.code = out
                /\ "attempts" \in DOMAIN e
                /\ e.attempts = Attempts(r)]_vars

\* Request r is on (or past) its first retry, and its first attempt was a
\* scan that failed with EPIPE/ECONNRESET on connection lastFailed[r].
FirstAttemptFaulted(r) ==
    r \in DOMAIN lastFailed /\ retryCount[r] = 1 /\ lastFailed[r] # NoConn

\* C15: if the first attempt of scanFile fails with a transport fault and the
\* first retry's scan succeeds, scanFile returns a result (no error) and the
\* connection on which the fault occurred is not in the collection, at the
\* return and in every later state.
C15_RetrySucceedsFaultedGone ==
    /\ [][\A r \in Reqs :
            (ScanDone(r, "OK") /\ FirstAttemptFaulted(r)) =>
               /\ pc'[r] = "done" /\ err'[r] = "none"
               /\ lastFailed[r] \notin Range(pool')]_vars
    /\ [](\A r \in Reqs :
            (pc[r] = "done" /\ FirstAttemptFaulted(r)) =>
               (err[r] = "none" /\ lastFailed[r] \notin Range(pool)))

\* A request is done after one retry that followed a transport fault, its
\* retry's connection being back in the collection, idle.
C15_Witness ==
    \E r \in Reqs :
        /\ pc[r] = "done"
        /\ FirstAttemptFaulted(r)
        /\ \E c \in Range(pool) : c # lastFailed[r] /\ c \notin inUse

\* C16 (as claimed): the retry that follows an EPIPE/ECONNRESET scan failure
\* never scans on the connection that just failed.
C16_RetryOnOtherConnection ==
    \A r \in DOMAIN lastFailed :
        (Scanning(r) /\ retryCount[r] > 0 /\ lastFailed[r] # NoConn) =>
           conn[r] # lastFailed[r]

\* C17: when the daemon answers the streaming scan with UNKNOWN COMMAND,
\* scanFile fails with the unsupported-protocol error in the same step,
\* whatever its retry count: no retry is scheduled, and the failed call never
\* retries or returns a result later.
C17_UnsupportedIsTerminal ==
    /\ [][\A r \in Reqs :
            ScanDone(r, "UNKNOWN_COMMAND") =>
               /\ pc'[r] = "failed"
               /\ err'[r] = "ProtocolUnsupported"
               /\ retryCount'[r] = retryCount[r]]_vars
    /\ [][\A r \in Reqs :
            (pc[r] = "failed" /\ err[r] = "ProtocolUnsupported") =>
               (pc'[r] = "failed" /\ err'[r] = "ProtocolUnsupported"
                /\ retryCount'[r] = retryCount[r] /\ conn'[r] = conn[r])]_vars

\* A request's first attempt was answered with UNKNOWN COMMAND and it has
\* failed with its whole retry budget left, while the link can still fail.
C17_Witness ==
    \E r \in Reqs :
        /\ pc[r] = "failed"
        /\ err[r] = "ProtocolUnsupported"
        /\ retryCount[r] = 0
        /\ conn[r] = NoConn
        /\ faultsLeft > 0

\* A response has been interpreted.
Resolved == resp # NoResp /\ result # NoResult

\* C18: a result with needsFallback = true has isInfected = false and no
\* viruses, whatever flags, names or file text the same response carries.
C18_FallbackNeverInfected ==
    (Resolved /\ result.needsFallback = Bool(TRUE)) =>
       (result.isInfected = Bool(FALSE) /\ result.viruses = <<>>)

\* An UNKNOWN COMMAND response that is flagged infected, names a threat and
\* has the marker in its file text got a fallback result.
C18_Witness ==
    /\ Resolved
    /\ result.needsFallback = Bool(TRUE)
    /\ resp.isInfected = Bool(TRUE)
    /\ resp.viruses = Arr(<<Name>>)
    /\ resp.file = Str(<<"FOUND:", " ", "EICAR-Test-File">>)

\* The response is marked infected by one of its flags.
MarkedInfected(object) == isInfectedFlag(object) = Bool(TRUE)
\* The response carries a collection of threat names that is empty, and no
\* name in any name field.
EmptyNameCollection(object) ==
    \/ object.viruses = Arr(<<>>) /\ ~LengthPositive(object.virus)
    \/ object.viruses = Undef /\ object.virus = Arr(<<>>)

\* C19 (as claimed): for every response, a result with isInfected = true has
\* at least one entry in viruses; and a response marked infected that carries
\* an empty collection of names gets exactly the one generic label.
C19_InfectedHasThreats ==
    Resolved =>
       /\ result.isInfected = Bool(TRUE) => Len(result.viruses) > 0
       /\ (MarkedInfected(resp) /\ EmptyNameCollection(resp))
             => result.viruses = <<GenericLabel>>

\* C19 (amended): for every response, a result with isInfected = true has at
\* least one entry in viruses; and a response other than UNKNOWN COMMAND that
\* is marked infected and carries an empty collection of names gets exactly
\* the one generic label.
C19_InfectedHasThreatsUnlessUnknown ==
    Resolved =>
       /\ result.isInfected = Bool(TRUE) => Len(result.viruses) > 0
       /\ (MarkedInfected(resp) /\ EmptyNameCollection(resp)
            /\ ~IsUnknownCommand(resp))
             => (result.isInfected = Bool(TRUE)
                 /\ result.viruses = <<GenericLabel>>)

\* A response flagged infected only by the string 'true', with an empty
\* viruses array, got the generic label.
C19_Witness ==
    /\ Resolved
    /\ resp.isInfected = Str(<<"true">>) /\ resp.infected = Undef
    /\ resp.viruses = Arr(<<>>) /\ resp.virus = Undef
    /\ result.isInfected = Bool(TRUE)
    /\ result.viruses = <<GenericLabel>>

\* The response has no infected flag and no name field.
NoFlagNoNames(object) ==
    /\ object.isInfected = Undef /\ object.infected = Undef
    /\ object.viruses = Undef /\ object.virus = Undef
\* The text s has "FOUND: EICAR-Test-File" at token i.
MarkerAt(s, i) ==
    /\ i + 2 <= Len(s)
    /\ s[i] = "FOUND:" /\ s[i + 1] = " " /\ s[i + 2] = "EICAR-Test-File"
EmbedsMarker(object) ==
    /\ object.file.t = "string"
    /\ \E i \in 1..Len(object.file.s) : MarkerAt(object.file.s, i)
\* The marker is the first FOUND: of the text, in any letter case, and only
\* white space follows its name.
EndsWithFirstMarker(object) ==
    /\ object.file.t = "string"
    /\ \E i \in 1..Len(object.file.s) :
          /\ MarkerAt(object.file.s, i)
          /\ \A k \in 1..(i - 1) : ~IsMarker(object.file.s[k])
          /\ \A k \in (i + 3)..Len(object.file.s) : IsSpace(object.file.s[k])

\* C20 (as claimed): a response with no infected flag and no name field whose
\* file text embeds "FOUND: EICAR-Test-File" yields isInfected = true and
\* viruses = ["EICAR-Test-File"].
C20_MarkerYieldsName ==
    (Resolved /\ NoFlagNoNames(resp) /\ EmbedsMarker(resp)) =>
       (result.isInfected = Bool(TRUE) /\ result.viruses = <<Name>>)

\* C20 (amended): a response other than UNKNOWN COMMAND, with no infected flag
\* and no name field, whose file text has "FOUND: EICAR-Test-File" as its
\* first FOUND: (in any letter case) with nothing but white space after the
\* name, yields isInfected = true and viruses = ["EICAR-Test-File"].
C20_FirstMarkerAtEndYieldsName ==
    (Resolved /\ NoFlagNoNames(resp) /\ EndsWithFirstMarker(resp)
     /\ ~IsUnknownCommand(resp)) =>
       (result.isInfected = Bool(TRUE) /\ result.viruses = <<Name>>)

\* The name was taken from a text with the other trigger word before the
\* marker and a blank after the name.
C20_Witness ==
    /\ Resolved
    /\ NoFlagNoNames(resp)
    /\ resp.file = Str(<<"Infected", "FOUND:", " ", "EICAR-Test-File">>)
       \/ resp.file = Str(<<"FOUND:", " ", "EICAR-Test-File", " ">>)
    /\ result.viruses = <<Name>>

\* C21 (as claimed): when a scan ends with a timeout, the connection it ran on
\* is evicted from the collection, as after EPIPE/ECONNRESET, and is not idle
\* in it.
C21_TimeoutEvicts ==
    [][\A r \in Reqs :
         ScanDone(r, "ETIMEDOUT") =>
            (conn[r] \notin Range(pool') /\ conn[r] \notin inUse')]_vars

\* C22 (as claimed): a scan attempt that fails with a timeout while
\* retryCount < maxRetries is followed by a further attempt of the same
\* scanFile call, as one that fails with EPIPE/ECONNRESET is.
C22_TimeoutRetried ==
    [][\A r \in Reqs :
         (ScanDone(r, "ETIMEDOUT") /\ retryCount[r] < maxRetries) =>
            (pc'[r] = "backoff" /\ err'[r] = "none")]_vars

\* C23 (as claimed): an attempt that fails because acquire() is rejected (queue
\* full), because the connection creation failed after all its tries, or
\* because the scan failed with an error that is neither a connection loss nor
\* a timeout, is not retried: scanFile fails with that error in the same step.
C23_OtherFailuresNotRetried ==
    [][\A r \in Reqs :
         /\ (CallsAcquire(r) /\ Saturated) =>
               (pc'[r] = "failed" /\ err'[r] = "PoolExhausted")
         /\ \A code \in CreateErrCodes :
               CreateFail(r, code) => (pc'[r] = "failed" /\ err'[r] = code)
         /\ ScanDone(r, "NO_CODE") =>
               (pc'[r] = "failed" /\ err'[r] = "NO_CODE")]_vars

\* Some connection creation has succeeded (the daemon has handed out an id).
EverCreated == nextConn > 1

\* C24: isReady() is true exactly when a connection creation has ever
\* succeeded or the collection holds a connection; once true it stays true,
\* also when every connection has been evicted.
C24_ReadyIffEverCreated ==
    /\ [](isReady(initialized, pool) <=> (EverCreated \/ Len(pool) > 0))
    /\ [][isReady(initialized, pool) => isReady(initialized', pool')]_vars

\* The pool is ready although its last connection was evicted after a
\* transport failure, and an upload is still to arrive.
C24_Witness ==
    /\ isReady(initialized, pool)
    /\ Len(pool) = 0
    /\ faulted # {}
    /\ \E r \in Reqs : pc[r] = "new"

\* C25 (as claimed): when the stream scan of an upload fails (UNKNOWN COMMAND
\* or a scan error), the upload does not end with that failure: the server
\* goes on (to a file-based scan) toward a verdict.
C25_StreamFailureFallsBack ==
    [][\A r \in Reqs : \A out \in ScanOutcomes \ {"OK"} :
         ScanDone(r, out) => pc'[r] # "failed"]_vars

\* C26 (as claimed): after a scan attempt that ends with a daemon response (OK
\* or UNKNOWN COMMAND) or with an error that is neither a connection loss nor
\* a timeout, the connection it used is still in the collection, and it is
\* idle when nobody waited, else held by the request that headed the queue.
C26_ReleasedNotEvicted ==
    [][\A r \in Reqs : \A out \in {"OK", "UNKNOWN_COMMAND", "NO_CODE"} :
         ScanDone(r, out) =>
            LET c == conn[r]
            IN  /\ c \in Range(pool')
                /\ IF Len(queue) = 0
                     THEN c \notin inUse'
                     ELSE /\ c \in inUse'
                          /\ conn'[Head(queue)] = c
                          /\ pc'[Head(queue)] = "scanning"]_vars

\* The collection p holds a connection that is not marked in u.
HasIdle(p, u) == \E c \in Range(p) : c \notin u
\* The step changes nothing of the pool but the in-use marker of c, starts
\* no creation and touches no request but r, which goes on to scan on c.
TakesIdle(r, p) ==
    LET c == conn'[r]
    IN  /\ pc'[r] = "scanning"
        /\ c \in Range(p) /\ c \notin inUse
        /\ inUse' = inUse \cup {c}
        /\ pool' = p
        /\ queue' = queue
        /\ \A x \in Reqs \ {r} : pc'[x] = pc[x] /\ conn'[x] = conn[x]

\* C27: when the collection holds an idle connection, acquire() resolves at
\* once with an idle connection of the collection, marked in-use; it starts no
\* creation, suspends nobody and leaves the collection and the queue as they
\* are (also when the idle connection is the one the caller's own lazy
\* initClamScan() has just pushed).
C27_IdleBranchFrame ==
    [][\A r \in Reqs :
         /\ (CallsAcquire(r) /\ HasIdle(pool, inUse)) =>
               (TakesIdle(r, pool) /\ nextConn' = nextConn)
         /\ LazyInitDone(r, TRUE) =>
               TakesIdle(r, Append(pool, nextConn))]_vars

\* A request scans on the only connection ever created, which it found idle
\* (pushed by the warm-up or by its own lazy initClamScan()) while the
\* collection was under its limit.
C27_Witness ==
    /\ bootPc = "up"
    /\ nextConn = 2
    /\ pool = <<1>>
    /\ Len(pool) < maxConnections
    /\ \E r \in Reqs : Scanning(r) /\ conn[r] = 1 /\ inUse = {1}
                          /\ retryCount[r] = 0

\* The step leaves the collection, the in-use set and the queue as they are
\* and gives request r no connection.
PoolUntouched(r) ==
    /\ pool' = pool /\ inUse' = inUse /\ queue' = queue
    /\ conn'[r] = NoConn

\* C28: an acquire() that starts a connection creation changes nothing of the
\* pool, and when the creation fails the acquire() fails with the creation's
\* error while the collection, the in-use set and the queue stay as they are:
\* nothing is left of the call.
C28_FailedCreationLeavesNoTrace ==
    [][\A r \in Reqs :
         /\ (CallsAcquire(r) /\ pc'[r] = "creating") => PoolUntouched(r)
         /\ \A code \in CreateErrCodes :
               CreateFail(r, code) =>
                  /\ PoolUntouched(r)
                  /\ initialized' = initialized /\ nextConn' = nextConn
                  /\ pc'[r] \in {"failed", "backoff"}
                  /\ pc'[r] = "failed" => err'[r] = code]_vars

\* A request has failed with the error of its connection creation while
\* another request scans on a connection of the collection.
C28_Witness ==
    \E r, x \in Reqs :
        /\ pc[r] = "failed" /\ err[r] = "ECONNREFUSED"
        /\ Scanning(x) /\ conn[x] \in Range(pool)

\* The attempts of one _createConnection call that failed so far.
FailedAttempts == {k \in 1..Len(tries) : tries[k] # "ok"}
AtMost(a, b) == IF a < b THEN a ELSE b

\* C29: one creation call makes at most 10 attempts and stops at the first
\* success; after failed attempt number k it waits delay * k, except after
\* the 10th; it fails only after 10 failed attempts, with the 10th's error.
C29_CreationPolicy ==
    /\ [](/\ Len(tries) <= createMaxRetries
          /\ \A k \in 1..(Len(tries) - 1) : tries[k] # "ok"
          /\ waits = [k \in 1..AtMost(Cardinality(FailedAttempts),
                                       createMaxRetries - 1) |-> delay * k]
          /\ cpc = "thrown" <=> (/\ Len(tries) = createMaxRetries
                                 /\ tries[createMaxRetries] # "ok")
          /\ cpc = "thrown" => cerr = tries[createMaxRetries]
          /\ cpc = "returned" <=> (tries # <<>> /\ tries[Len(tries)] = "ok"))
    /\ [][(cpc \in {"returned", "thrown"}) => UNCHANGED crt]_vars
C29_Witness ==
    /\ cpc = "thrown" /\ cerr = "ECONNRESET" /\ tries[1] = "ECONNREFUSED"
    /\ Len(waits) = createMaxRetries - 1
    /\ waits[createMaxRetries - 1] = delay * (createMaxRetries - 1)

\* No upload has been handled yet.
NoUploadYet == \A r \in Reqs : pc[r] = "new"

\* C30: a failed warm-up changes nothing (with no upload handled meanwhile:
\* empty collection, isReady() false) and the next upload that finds the pool
\* not ready runs initClamScan again; a successful warm-up adds exactly one
\* connection, idle (with no upload handled meanwhile: the only one).
C30_WarmUpBestEffort ==
    [][/\ BootDone(FALSE) =>
            /\ pool' = pool /\ inUse' = inUse /\ initialized' = initialized
            /\ pc' = pc
            /\ NoUploadYet => (pool' = <<>> /\ ~isReady(initialized', pool'))
       /\ BootDone(TRUE) =>
            /\ \E c \in ConnIds \ Range(pool) :
                   pool' = Append(pool, c) /\ c \notin inUse'
            /\ inUse' = inUse
            /\ NoUploadYet => (Len(pool') = 1 /\ inUse' = {})
       /\ \A r \in Reqs :
            (bootPc = "up" /\ ~EverCreated /\ pc[r] = "new" /\ pc'[r] # "new")
               => pc'[r] = "lazyinit"]_vars
C30_Witness ==
    /\ bootPc = "up" /\ ~EverCreated /\ pool = <<>>
    /\ ~isReady(initialized, pool)
    /\ \E r \in Reqs : pc[r] = "lazyinit"

\* Request x's scan callback releases its connection to waiter a in this step.
ReleasedTo(x, a) ==
    /\ x # a /\ Scanning(x) /\ pc'[x] # "scanning"
    /\ release(inUse, queue, conn[x]).resolved = a
    /\ conn'[a] = conn[x]

\* C31: a suspended acquire() occupies one queue entry; it leaves the queue
\* only by being resolved with the connection that another request's scan
\* callback passes to release(), it is then off the queue (no second
\* resumption), and it is never failed while it waits.
C31_ResumedOnceByRelease ==
    /\ [](/\ \A i, j \in 1..Len(queue) : i # j => queue[i] # queue[j]
          /\ \A a \in Reqs : pc[a] = "waiting" <=> a \in Range(queue))
    /\ [][\A a \in Reqs :
            /\ (pc[a] = "waiting" /\ pc'[a] # "waiting") =>
                  /\ pc'[a] = "scanning"
                  /\ err'[a] = "none"
                  /\ a \notin Range(queue')
                  /\ Len(queue') = Len(queue) - 1
                  /\ \E x \in Reqs : ReleasedTo(x, a)
            /\ (pc[a] = "waiting" /\ pc'[a] = "waiting") =>
                  (a \in Range(queue') /\ conn'[a] = NoConn)]_vars
\* A waiter has been resumed and scans while another request still waits.
C31_Witness ==
    \E a, b \in Reqs :
        /\ a \in resumed /\ Scanning(a) /\ conn[a] # NoConn
        /\ pc[b] = "waiting" /\ queue = <<b>>

\* C32: if every scan that holds a connection completes, every acquire()
\* suspended in the wait queue is eventually given a connection.
C32_WaiterEventuallyServed ==
    \A r \in 1..3 :
        (pc[r] = "waiting") ~> (pc[r] = "scanning" /\ conn[r] # NoConn)
\* Two requests wait at once and the pool has lost a connection to a
\* transport error.
C32_Witness ==
    /\ Len(queue) = 2
    /\ faulted # {}

\* C33 (as claimed): for every response, a result that is not infected has
\* an empty viruses list.
C33_CleanHasNoThreats ==
    Resolved => (~Truthy(result.isInfected) => result.viruses = <<>>)

\* The response carries the names ns as a non-empty collection under one of
\* its name fields.
CarriesNames(object, ns) ==
    /\ Len(ns) > 0
    /\ \/ object.viruses = Arr(ns)
       \/ object.virus = Arr(ns)

\* C34 (as claimed): a response (other than UNKNOWN COMMAND) that carries a
\* non-empty collection of names under viruses or virus gets an infected
\* result whose viruses list holds those names, also when the other name
\* field is present and empty.
C34_NamesReported ==
    (Resolved /\ ~IsUnknownCommand(resp)) =>
       \A ns \in {<<Name>>} :
          CarriesNames(resp, ns) =>
             /\ Truthy(result.isInfected)
             /\ Range(ns) \subseteq Range(result.viruses)

\* The upload's size is one the handler refuses to scan.
ZeroSize == upFile # NoFile /\ IsZero(fileSizeOf(upFile))
TooLarge == upFile # NoFile /\ Gt(fileSizeOf(upFile), MAX_FILE_SIZE_FOR_SCAN)
ValidationError == [status |-> 400, stage |-> "validation_failed"]
RequestTimeout == [status |-> 408, stage |-> "upload_timeout"]
\* scanFile has not been called for the upload and it holds no connection.
NeverScanned ==
    /\ \A r \in Reqs : pc[r] \in {"new", "lazyinit", "skipped"} /\ conn[r] = NoConn
    /\ inUse = {} /\ queue = <<>>

\* C35 (as claimed): an upload of 0 bytes or of more than 2147483647 bytes is
\* answered with a validation error and does not reach scanFile: no
\* connection is acquired for it.
C35_BadSizeRejected ==
    (ZeroSize \/ TooLarge) =>
       /\ NeverScanned
       /\ hpc = "returned" => http = ValidationError

\* C35 (amended): an upload of 0 bytes, and with virus scanning enabled an
\* upload of more than 2147483647 bytes, is answered with a validation
\* error, unless the request timed out (408) while the handler awaited
\* initClamScan(); with or without scanning, neither reaches scanFile: no
\* connection is acquired for it.
C35_BadSizeRejectedWhenScanning ==
    (ZeroSize \/ TooLarge) =>
       /\ NeverScanned
       /\ (hpc = "returned" /\ (ZeroSize \/ enableScan)) =>
             http \in {ValidationError, RequestTimeout}
       /\ http = RequestTimeout => enableScan
\* An upload of 2^31 bytes was rejected after the handler's own
\* initClamScan() had added a connection, which stays idle.
C35_Witness ==
    /\ enableScan /\ upFile.length = Size(32768, 0)
    /\ hpc = "returned" /\ http = ValidationError
    /\ Len(pool) > 0 /\ inUse = {}

\* Request r makes its first call of acquire() in this step.
FirstAcquire(r) ==
    /\ retryCount[r] = 0
    /\ StartReady(r) \/ \E ok \in BOOLEAN : LazyInitDone(r, ok)

\* C36 (as claimed): a request calling acquire() for the first time while an
\* earlier request waits in the queue gets no idle connection and starts no
\* creation of its own: it does not overtake the waiter.
C36_NoOvertaking ==
    [][\A r \in Reqs :
         (FirstAcquire(r) /\ queue # <<>>) =>
            pc'[r] \notin {"scanning", "creating"}]_vars

\* C37 (as claimed): while a request waits in the queue, no connection of
\* the collection is idle.
C37_NoWaitWhileIdle ==
    queue # <<>> => \A c \in Range(pool) : ~Idle(c)

\* No scan attempt is in flight and no acquire() is pending (neither
\* creating a connection nor suspended in the queue).
Quiescent == \A r \in Reqs : pc[r] \notin {"scanning", "creating", "waiting"}

\* C38: whenever no scan attempt is in flight and no acquire() is pending,
\* no connection is marked in-use and the wait queue is empty.
C38_NoLeak == Quiescent => (inUse = {} /\ queue = <<>>)
\* All uploads are over, after a transport failure, a failure of another
\* kind and a rejected acquire(), and a connection is left in the collection.
C38_Witness ==
    /\ Quiescent
    /\ \A r \in Reqs : pc[r] \in {"done", "failed"}
    /\ faulted # {} /\ Len(pool) > 0
    /\ \E r \in Reqs : err[r] \in {"ETIMEDOUT", "NO_CODE"}
    /\ \E r \in Reqs : r \in resumed \/ err[r] = "PoolExhausted"

\* Request r is inside scanFile: acquiring, scanning or between two attempts.
InScanFile(r) == pc[r] \in {"creating", "waiting", "scanning", "backoff"}

\* C39: if every creation, every daemon scan call and every retry timer
\* completes, every scanFile call eventually returns a result or fails.
C39_ScanFileTerminates ==
    \A r \in 1..2 : InScanFile(r) ~> (pc[r] \in {"done", "failed"})
\* One upload failed after using up its retries on transport errors that
\* cost the pool its connections, the other got its result.
C39_Witness ==
    \E r, x \in Reqs :
        /\ pc[r] = "failed" /\ retryCount[r] = maxRetries
        /\ err[r] \in TransportCodes
        /\ pc[x] = "done" /\ faulted # {}

====
